---- MODULE Spec2Model ----
(***************************************************************************)
(* Model of src/src/dwd_opendata_get_grib.py: the bounded-concurrency      *)
(* download batch (download_url_list / download_single_file on the asyncio *)
(* event loop), the sequential transform phase of get_wind_data, the level *)
(* stacker and the longitude axis of json_to_csv.                          *)
(*                                                                         *)
(* Coordinates are whole hundredths of a degree (the code multiplies the   *)
(* degrees by 100 before calling arange).                                  *)
(***************************************************************************)
EXTENDS Integers, Sequences, FiniteSets, TLC

VARIABLES
    pc,        \* position of the main program
    exc,       \* exception that ended the main program ("none" while there is none)
    cfg,       \* arguments of the run: hour range, level range
    fld,       \* index into FIELDS of the field loop
    dirs,      \* fields whose destination directory exists
    urls,      \* url_list of the current batch: sequence of targets <<field, hour, level>>
    limit,     \* limit of the current batch
    net,       \* what the transport does for each url of the current batch
    task,      \* per url of the batch: position of its download_single_file task
    sem,       \* free slots of the asyncio.Semaphore
    waiters,   \* tasks suspended in semaphore.acquire(), oldest first
    ready,     \* the event loop's queue of callbacks ready to run
    gather,    \* state of asyncio.gather: finished children, outer future
    files,     \* the .bz2 files: target to content
    requested, \* targets for which an HTTP request was issued
    ended,     \* targets whose download task has ended
    hr,        \* hour of the transform loop
    lvl,       \* level of the transform loop
    grid,      \* geometry of the records the decoder dumps in this run
    gribs,     \* the .grib2 files: target to content
    jsons,     \* the .json files: target to content
    stack,     \* data_matrices: the crops appended for the current hour
    bins,      \* the .bin artifacts written: (field, hour) to its blocks
    dump,      \* what the last run of grib_dump came to ("none" before the first)
    fin,       \* argument of a function applied on its own
    fout       \* its result

batchVars == <<urls, limit, net, task, sem, waiters, ready, gather, files, requested, ended>>
runVars == <<hr, lvl, grid, gribs, jsons, stack, bins, dump>>
fnVars == <<fin, fout>>
vars == <<pc, exc, cfg, fld, dirs, urls, limit, net, task, sem, waiters, ready, gather,
          files, requested, ended, hr, lvl, grid, gribs, jsons, stack, bins, dump,
          fin, fout>>

----------------------------------------------------------------------------
Min(a, b) == IF a < b THEN a ELSE b
Max(a, b) == IF a > b THEN a ELSE b

(* Program constants *)

FIELDS == <<"u", "v", "w">>
DEFAULT_LIMIT == 10

MAX_HOURS == 48
MAX_LEVEL == 65
FULL_CIRCLE == 36000
INDEX_47_DEG_LAT == 191
INDEX_54P98_DEG_LAT == 591
INDEX_5_DEG_LON == 447
INDEX_14P98_DEG_LON == 947

(* Bounds of the model *)
MaxLevel == 2      \* vertical levels 0..MaxLevel of a run
MaxTargets == 2    \* targets of one field of a run
MaxFaults == 1     \* transfers of a run that the transport fails
MaxBatch == 3      \* urls of a batch called on its own
MaxLimit == 2      \* limits 1..MaxLimit of a batch called on its own
NChunks == 1       \* chunks of a response body

FieldSet == {FIELDS[i] : i \in 1..Len(FIELDS)}

----------------------------------------------------------------------------
(* Files *)

Absent(t) == [kind |-> "absent", n |-> 0, src |-> t]
(* A directory maps the names of the files it holds to their content. *)
NoFiles == [t \in {} |-> Absent(t)]
Read(dir, t) == IF t \in DOMAIN dir THEN dir[t] ELSE Absent(t)
Write(dir, t, content) == [x \in DOMAIN dir \cup {t} |-> IF x = t THEN content ELSE dir[x]]

(* What the transport does for one request. *)
NetKinds == {"ok", "connect_error", "read_error", "status404"}

Plans(n) == [1..n -> NetKinds]

----------------------------------------------------------------------------
(* The event loop.  An entry of the ready queue is the next step of task i *)
(* ("step"), the done-callback gather attached to task i ("cb"), or the    *)
(* wake-up of the coroutine awaiting gather ("main").                      *)

Step(i) == [k |-> "step", i |-> i]
Cb(i) == [k |-> "cb", i |-> i]
WakeMain == [k |-> "main", i |-> 0]
(* the oldest ready callback is e: the event loop runs it next *)
Runs(e) == ready # <<>> /\ Head(ready) = e

NewTask == [pc |-> "created", ev |-> "none", err |-> "none"]
Terminal == {"done", "raised", "cancelled"}
InFlightPcs == {"connecting", "streaming"}
InFlight == {i \in DOMAIN task : task[i].pc \in InFlightPcs}

(* dest_folder.exists() is false *)
DestMissing(d) == d \notin dirs

SemNeverLocked(s, w) == FALSE
(* asyncio.Semaphore.locked(): no free slot, or somebody already waits *)
SemLocked(s, w) == s = 0 \/ w # <<>>

CaughtNothing(e) == FALSE
(* the except clause of download_single_file *)
Caught(e) == e = "HTTPError"

GatherFirstCompleted(nfinished, nfuts) == nfinished >= 1
(* gather's outer future gets its result when every child has finished *)
GatherComplete(nfinished, nfuts) == nfinished = nfuts

(* filename = url.split('/')[-1].replace(" ", "_"): the file a url is written to *)
DestFile(i) == urls[i]

(* download_url_list up to "await asyncio.gather of the tasks" *)
BatchStart ==
    /\ pc = "batch_call"
    /\ task' = [i \in 1..Len(urls) |-> NewTask]
    /\ sem' = limit
    /\ waiters' = <<>>
    /\ gather' = [nfinished |-> 0, outer |-> IF Len(urls) = 0 THEN "result" ELSE "pending"]
    /\ ready' = [i \in 1..Len(urls) |-> Step(i)]
    /\ pc' = IF Len(urls) = 0 THEN "batch_returned" ELSE "gather"
    /\ UNCHANGED <<exc, cfg, fld, dirs, urls, limit, net, files, requested, ended,
                   runVars, fnVars>>

(* a release that gives no slot back *)
LeakedSem == sem
(* semaphore.release(): the slot goes to the oldest waiter, if any *)
ReleasedSem == IF waiters = <<>> THEN sem + 1 ELSE sem
ReleasedWaiters == IF waiters = <<>> THEN waiters ELSE Tail(waiters)
WokenBy(t) ==
    IF waiters = <<>> THEN t
    ELSE [t EXCEPT ![Head(waiters)].ev = "woken"]
ReadyAfterRelease(q) ==
    IF waiters = <<>> THEN q ELSE Append(q, Step(Head(waiters)))

(* First step of download_single_file: the directory check, then           *)
(* "async with semaphore", then the request of client.stream("GET", url).  *)
TaskStart(i) ==
    /\ Runs(Step(i))
    /\ task[i].pc = "created"
    /\ IF DestMissing(urls[i][1])
       THEN /\ task' = [task EXCEPT ![i] = [pc |-> "raised", ev |-> "none",
                                            err |-> "FileNotFoundError"]]
            /\ ready' = Append(Tail(ready), Cb(i))
            /\ ended' = ended \cup {urls[i]}
            /\ UNCHANGED <<sem, waiters, requested>>
       ELSE IF SemLocked(sem, waiters)
       THEN /\ task' = [task EXCEPT ![i].pc = "wait_sem"]
            /\ waiters' = Append(waiters, i)
            /\ ready' = Tail(ready)
            /\ UNCHANGED <<sem, requested, ended>>
       ELSE /\ sem' = sem - 1
            /\ task' = [task EXCEPT ![i].pc = "connecting"]
            /\ requested' = requested \cup {urls[i]}
            /\ ready' = Tail(ready)
            /\ UNCHANGED <<waiters, ended>>
    /\ UNCHANGED <<pc, exc, cfg, fld, dirs, urls, limit, net, gather, files,
                   runVars, fnVars>>

(* A waiter that was given a slot enters client.stream("GET", url). *)
TaskAcquired(i) ==
    /\ Runs(Step(i))
    /\ task[i].pc = "wait_sem"
    /\ task[i].ev = "woken"
    /\ task' = [task EXCEPT ![i] = [pc |-> "connecting", ev |-> "none", err |-> "none"]]
    /\ requested' = requested \cup {urls[i]}
    /\ ready' = Tail(ready)
    /\ UNCHANGED <<pc, exc, cfg, fld, dirs, urls, limit, net, sem, waiters, gather,
                   files, ended,
                   runVars, fnVars>>

(* The response arrived: open(file_path, "wb") and the first read of the body. *)
(* The status of the response is not looked at.                               *)
TaskOpenFile(i) ==
    /\ Runs(Step(i))
    /\ task[i].pc = "connecting"
    /\ task[i].ev = "headers"
    /\ task' = [task EXCEPT ![i] = [pc |-> "streaming", ev |-> "none", err |-> "none"]]
    /\ files' = Write(files, DestFile(i),
                    [kind |-> IF net[i] = "status404" THEN "body404" ELSE "body200",
                     n |-> 0, src |-> urls[i]])
    /\ ready' = Tail(ready)
    /\ UNCHANGED <<pc, exc, cfg, fld, dirs, urls, limit, net, sem, waiters, gather,
                   requested, ended,
                   runVars, fnVars>>

(* The task leaves "async with semaphore" and ends, normally or with e. *)
TaskEnd(i, e, caught) ==
    /\ task' = [WokenBy(task) EXCEPT ![i] =
                   [pc |-> IF e = "none" \/ caught THEN "done" ELSE "raised",
                    ev |-> "none", err |-> e]]
    /\ sem' = ReleasedSem
    /\ waiters' = ReleasedWaiters
    /\ ready' = Append(ReadyAfterRelease(Tail(ready)), Cb(i))
    /\ ended' = ended \cup {urls[i]}

(* stream.write(chunk); the body ends with its last chunk *)
TaskChunk(i) ==
    /\ Runs(Step(i))
    /\ task[i].pc = "streaming"
    /\ task[i].ev = "chunk"
    /\ files' = [files EXCEPT ![DestFile(i)].n = @ + 1]
    /\ IF Read(files, DestFile(i)).n + 1 = NChunks
       THEN TaskEnd(i, "none", FALSE)
       ELSE /\ task' = [task EXCEPT ![i].ev = "none"]
            /\ ready' = Tail(ready)
            /\ UNCHANGED <<sem, waiters, ended>>
    /\ UNCHANGED <<pc, exc, cfg, fld, dirs, urls, limit, net, gather, requested,
                   runVars, fnVars>>

(* httpx.HTTPError raised by client.stream or by response.aiter_bytes() *)
TaskHTTPError(i) ==
    /\ Runs(Step(i))
    /\ task[i].pc \in InFlightPcs
    /\ task[i].ev = "error"
    /\ TaskEnd(i, "HTTPError", Caught("HTTPError"))
    /\ UNCHANGED <<pc, exc, cfg, fld, dirs, urls, limit, net, gather, files, requested,
                   runVars, fnVars>>

(* The transport has something for a task that awaits it. *)
NetEvents(i) ==
    IF task[i].pc = "connecting"
    THEN IF net[i] = "connect_error" THEN {"error"} ELSE {"headers"}
    ELSE IF net[i] = "read_error"
         THEN {"error"} \cup (IF Read(files, DestFile(i)).n + 1 < NChunks THEN {"chunk"} ELSE {})
         ELSE {"chunk"}

NetDeliver(i) ==
    /\ pc = "gather"
    /\ task[i].pc \in InFlightPcs
    /\ task[i].ev = "none"
    /\ \E e \in NetEvents(i) : task' = [task EXCEPT ![i].ev = e]
    /\ ready' = Append(ready, Step(i))
    /\ UNCHANGED <<pc, exc, cfg, fld, dirs, urls, limit, net, sem, waiters, gather,
                   files, requested, ended,
                   runVars, fnVars>>

(* gather's _done_callback for child i *)
GatherCallback(i) ==
    /\ Runs(Cb(i))
    /\ LET n == gather.nfinished + 1
           out == IF gather.outer # "pending" THEN gather.outer
                  ELSE IF task[i].pc = "raised" THEN task[i].err
                  ELSE IF GatherComplete(n, Len(urls)) THEN "result"
                  ELSE "pending"
       IN /\ gather' = [nfinished |-> n, outer |-> out]
          /\ ready' = IF gather.outer = "pending" /\ out # "pending"
                      THEN Append(Tail(ready), WakeMain)
                      ELSE Tail(ready)
    /\ UNCHANGED <<pc, exc, cfg, fld, dirs, urls, limit, net, task, sem, waiters,
                   files, requested, ended,
                   runVars, fnVars>>

(* "await asyncio.gather of the tasks" resumes: with a result               *)
(* download_url_list returns, with an exception it raises.  asyncio.run     *)
(* then cancels whatever task is still pending.                             *)
BatchResume ==
    /\ pc = "gather"
    /\ Runs(WakeMain)
    /\ pc' = IF gather.outer = "result" THEN "batch_returned" ELSE "batch_raised"
    /\ exc' = IF gather.outer = "result" THEN exc ELSE gather.outer
    /\ task' = [i \in DOMAIN task |->
                  IF task[i].pc \in Terminal THEN task[i]
                  ELSE [pc |-> "cancelled", ev |-> "none", err |-> "CancelledError"]]
    /\ ready' = <<>>
    /\ waiters' = <<>>
    /\ ended' = ended \cup {urls[i] : i \in DOMAIN task}
    /\ UNCHANGED <<cfg, fld, dirs, urls, limit, net, sem, gather, files, requested,
                   runVars, fnVars>>

----------------------------------------------------------------------------
(* download_url_list called on its own: any list of up to MaxBatch urls of *)
(* one field, any limit, the destination directory present or not.         *)

NoCfg == [hours |-> <<0, 0>>, levels |-> <<1, 0>>]
NoGrid == [Ni |-> 0, Nj |-> 0, lon0 |-> 0, lon1 |-> 0, lat0 |-> 0, lat1 |-> 0, step |-> 1]
NoRun ==
    /\ hr = 0
    /\ lvl = 0
    /\ grid = NoGrid
    /\ gribs = NoFiles
    /\ jsons = NoFiles
    /\ stack = <<>>
    /\ bins = NoFiles
    /\ dump = "none"
NoFn ==
    /\ fin = <<>>
    /\ fout = <<>>

InitBatch ==
    /\ pc = "batch_call"
    /\ exc = "none"
    /\ cfg = NoCfg
    /\ fld = 1
    /\ dirs \in {{}, {FIELDS[1]}}
    /\ \E n \in 0..MaxBatch :
         /\ urls = [i \in 1..n |-> <<FIELDS[1], 0, i>>]
         /\ net \in Plans(n)
    /\ limit \in 1..MaxLimit
    /\ task = <<>>
    /\ sem = 0
    /\ waiters = <<>>
    /\ ready = <<>>
    /\ gather = [nfinished |-> 0, outer |-> "pending"]
    /\ files = NoFiles
    /\ requested = {}
    /\ ended = {}
    /\ NoRun
    /\ NoFn

NextBatch ==
    \/ BatchStart
    \/ \E i \in DOMAIN task : TaskStart(i)
    \/ \E i \in DOMAIN task : TaskAcquired(i)
    \/ \E i \in DOMAIN task : NetDeliver(i)
    \/ \E i \in DOMAIN task : TaskOpenFile(i)
    \/ \E i \in DOMAIN task : TaskChunk(i)
    \/ \E i \in DOMAIN task : TaskHTTPError(i)
    \/ \E i \in DOMAIN task : GatherCallback(i)
    \/ BatchResume

SpecBatch == InitBatch /\ [][NextBatch]_vars

(* The event loop runs the oldest ready callback as long as there is one,  *)
(* and the transport of every started transfer goes on to deliver the      *)
(* response, the body or an error.                                         *)
LoopStep ==
    \/ BatchStart
    \/ \E i \in DOMAIN task : TaskStart(i)
    \/ \E i \in DOMAIN task : TaskAcquired(i)
    \/ \E i \in DOMAIN task : TaskOpenFile(i)
    \/ \E i \in DOMAIN task : TaskChunk(i)
    \/ \E i \in DOMAIN task : TaskHTTPError(i)
    \/ \E i \in DOMAIN task : GatherCallback(i)
    \/ BatchResume
Delivers(i) == i \in DOMAIN task /\ NetDeliver(i)

(* the batches of which at most MaxFaults transfers fail *)
InitBatchFair ==
    /\ InitBatch
    /\ Cardinality({i \in DOMAIN net : net[i] # "ok"}) <= MaxFaults

SpecBatchFair ==
    /\ InitBatchFair
    /\ [][NextBatch]_vars
    /\ WF_vars(LoopStep)
    /\ \A i \in 1..MaxBatch : WF_vars(Delivers(i))

----------------------------------------------------------------------------
(* Properties of one batch *)

BatchOver == pc \in {"batch_returned", "batch_raised"}
TransportFailures == {"connect_error", "read_error", "status404"}
(* the file of target t holds the whole body of a successful response for t *)
Complete(t) == Read(files, t) = [kind |-> "body200", n |-> NChunks, src |-> t]

(* C1: at every instant of a batch with limit L, the transfers that have   *)
(* opened the HTTP stream and have not yet finished or failed number at    *)
(* most L.                                                                 *)
C1_InFlightWithinLimit == Cardinality(InFlight) <= limit
(* a batch with more targets than slots: the slots are all taken, a task waits *)
C1_Witness ==
    /\ Len(urls) > limit
    /\ Cardinality(InFlight) = limit
    /\ waiters # <<>>

(* C2: when download_url_list hands control back, every task of the batch  *)
(* has ended by itself (returned or raised): none is in flight, none has   *)
(* not started, and none is ever cancelled.                                *)
C2_ReturnsWhenAllTerminal ==
    /\ BatchOver => \A i \in 1..Len(urls) : task[i].pc \in {"done", "raised"}
    /\ \A i \in DOMAIN task : task[i].pc # "cancelled"
(* a returned batch of mixed outcomes *)
C2_Witness ==
    /\ pc = "batch_returned"
    /\ \E i, j \in DOMAIN task : net[i] = "ok" /\ net[j] \in {"connect_error", "read_error"}

(* C3: when the batch is over and target j failed with a transport error,  *)
(* every other target i was requested, and if the transport served i well  *)
(* its task returned without error and its file holds the whole body.      *)
C3_SiblingsUnaffected ==
    BatchOver =>
      \A j \in 1..Len(urls) : task[j].err = "HTTPError" =>
        \A i \in 1..Len(urls) \ {j} :
          /\ urls[i] \in requested
          /\ net[i] = "ok" => task[i] = [pc |-> "done", ev |-> "none", err |-> "none"]
                              /\ Complete(urls[i])
(* a failed target ended before a sibling that then succeeded *)
C3_Witness ==
    \E i, j \in DOMAIN task :
      /\ i # j
      /\ task[j].err = "HTTPError"
      /\ task[i].pc = "streaming"
      /\ net[i] = "ok"

(* C4: with the destination directory missing, no HTTP request is made and *)
(* the batch ends with FileNotFoundError, whatever the list of targets.    *)
C4_MissingDirFailsBatch ==
    dirs = {} =>
      /\ requested = {}
      /\ BatchOver => pc = "batch_raised" /\ exc = "FileNotFoundError"

(* C5: a target whose transfer met a connection error, a read error or a   *)
(* non-success status ends as a reported failure, and its file does not    *)
(* hold the body of the failed response.                                   *)
C5_TransportFailureReported ==
    \A i \in 1..Len(urls) :
      (i \in DOMAIN task /\ task[i].pc \in Terminal /\ urls[i] \in requested
         /\ net[i] \in TransportFailures)
      => /\ task[i].err = "HTTPError"
         /\ Read(files, DestFile(i)).kind # "body404"

(* C26: once the batch has returned, a file at the destination of a target *)
(* holds the whole body of that target's successful response; a target    *)
(* whose transfer failed, before or in the middle of the body, has no     *)
(* file there.                                                             *)
C26_OnlyCompleteFiles ==
    pc = "batch_returned" =>
      \A i \in 1..Len(urls) :
        DestFile(i) \in DOMAIN files => (net[i] = "ok" /\ Complete(DestFile(i)))

(* the tasks that hold a slot: between the acquire and the release of      *)
(* "async with semaphore", a woken waiter included                         *)
SlotHolders ==
    {i \in DOMAIN task :
        task[i].pc \in InFlightPcs \/ (task[i].pc = "wait_sem" /\ task[i].ev = "woken")}
(* every target has acquired a slot and the batch has handed control back *)
AllServed == BatchOver /\ \A i \in 1..Len(urls) : urls[i] \in requested

(* C23 as stated: of a batch of more targets than slots, under fair        *)
(* scheduling and a transport that ends every transfer, every target       *)
(* eventually acquires a slot and the batch eventually returns.            *)
C23_EveryTargetAcquires == (Len(urls) > limit) => <>AllServed

(* C23: while the batch runs, the free slots and the slots held add up to  *)
(* the limit, so a transfer that ended, in success or in failure, holds    *)
(* none; and of a batch of more targets than slots into an existing        *)
(* directory every target eventually acquires a slot and the batch         *)
(* eventually returns with all slots free.                                  *)
C23_NoLeakAndProgress ==
    /\ [](pc = "gather" => sem + Cardinality(SlotHolders) = limit)
    /\ (Len(urls) > limit /\ ~DestMissing(FIELDS[1]))
         => <>(AllServed /\ pc = "batch_returned" /\ sem = limit)
(* three targets on one slot, one of them failed, all served *)
C23_Witness ==
    /\ pc = "batch_returned"
    /\ Len(urls) = 3
    /\ limit = 1
    /\ sem = limit
    /\ \A i \in 1..Len(urls) : urls[i] \in requested
    /\ \E i \in DOMAIN task : task[i].err = "HTTPError"
    /\ \E i \in DOMAIN task : Complete(DestFile(i))

----------------------------------------------------------------------------
(* Grid geometry of json_to_csv.  Degrees are carried as whole hundredths, *)
(* the scale the code multiplies them to before it calls arange.           *)

(* np.arange(start, stop, step) for step > 0 *)
Arange(start, stop, step) ==
    LET n == IF stop > start THEN (stop - start + step - 1) \div step ELSE 0
    IN [k \in 1..n |-> start + (k - 1) * step]

(* df_idx *)
LatAxis(g) == Arange(g.lat0, g.lat1 + g.step, g.step)

(* df_cols *)
LonAxis(g) ==
    IF g.lon0 > g.lon1
    THEN Arange(g.lon0, FULL_CIRCLE, g.step) \o Arange(0, g.lon1 + g.step, g.step)
    ELSE Arange(g.lon0, g.lon1, g.step)

(* a[start:stop] on an axis of n entries keeps the entries that exist *)
SliceLen(n, start, stop) == Max(0, Min(n, stop) - Min(n, start))
(* shape of only_germany *)
CropRows(g) == SliceLen(g.Nj, INDEX_47_DEG_LAT, INDEX_54P98_DEG_LAT)
CropCols(g) == SliceLen(g.Ni, INDEX_5_DEG_LON, INDEX_14P98_DEG_LON)

ReshapeAny(g, nvalues) == TRUE
(* values.reshape(Nj, Ni) and pd.DataFrame(data_matrix, index, columns) accept *)
ReshapeOK(g, nvalues) == nvalues = g.Nj * g.Ni
FrameOK(g) == Len(LatAxis(g)) = g.Nj /\ Len(LonAxis(g)) = g.Ni

(* The grids a decoder dumps: the archive's grid (1215 x 746 points of     *)
(* 0.02 degrees across the 0/360 seam), one that does not cross the seam,  *)
(* and two smaller ones across the seam.                                   *)
Grids == {
    [Ni |-> 1215, Nj |-> 746, lon0 |-> 35606, lon1 |-> 2034, lat0 |-> 4318, lat1 |-> 5808, step |-> 2],
    [Ni |-> 1000, Nj |-> 600, lon0 |-> 0, lon1 |-> 1998, lat0 |-> 4000, lat1 |-> 5198, step |-> 2],
    [Ni |-> 600, Nj |-> 300, lon0 |-> 35900, lon1 |-> 499, lat0 |-> 0, lat1 |-> 299, step |-> 1],
    [Ni |-> 21, Nj |-> 11, lon0 |-> 35000, lon1 |-> 1000, lat0 |-> 4000, lat1 |-> 5000, step |-> 100] }

----------------------------------------------------------------------------
(* main and get_wind_data *)

(* the checks of main on the parsed arguments *)
Rejected(c) ==
    \/ c.hours[2] < c.hours[1]
    \/ c.hours[2] > MAX_HOURS
    \/ c.hours[1] < 0
    \/ c.levels[1] > c.levels[2]
    \/ c.levels[1] > MAX_LEVEL
    \/ c.levels[2] > MAX_LEVEL

Main ==
    /\ pc = "main"
    /\ IF Rejected(cfg)
       THEN pc' = "exit" /\ exc' = "ValueError"
       ELSE pc' = "get_wind_data" /\ UNCHANGED exc
    /\ UNCHANGED <<cfg, fld, dirs, batchVars, runVars, fnVars>>

(* get_wind_data up to the download loop: Path.mkdir for every field *)
MakeDirs ==
    /\ pc = "get_wind_data"
    /\ dirs' = FieldSet
    /\ fld' = 1
    /\ pc' = "download"
    /\ UNCHANGED <<exc, cfg, batchVars, runVars, fnVars>>

NHours == cfg.hours[2] - cfg.hours[1] + 1
NLevels == cfg.levels[2] - cfg.levels[1] + 1
(* urls[field]: hours outside, levels inside *)
URLList(f) ==
    [k \in 1..(NHours * NLevels) |->
        <<f, cfg.hours[1] + ((k - 1) \div NLevels), cfg.levels[1] + ((k - 1) % NLevels)>>]

(* The archive holds the levels 1..65; at most MaxFaults transfers of a run fail. *)
Faults == Cardinality({t \in ended : Read(files, t) # [kind |-> "body200", n |-> NChunks, src |-> t]})
RunPlans(u) ==
    {p \in Plans(Len(u)) :
        /\ \A i \in 1..Len(u) : p[i] = "ok" => u[i][3] \in 1..MAX_LEVEL
        /\ Faults + Cardinality({i \in 1..Len(u) : p[i] # "ok"}) <= MaxFaults}

(* one iteration of the download loop up to the call of download_url_list *)
FieldDownload ==
    /\ pc = "download"
    /\ urls' = URLList(FIELDS[fld])
    /\ limit' = DEFAULT_LIMIT
    /\ net' \in RunPlans(URLList(FIELDS[fld]))
    /\ pc' = "batch_call"
    /\ UNCHANGED <<exc, cfg, fld, dirs, task, sem, waiters, ready, gather, files,
                   requested, ended, runVars, fnVars>>

StartsTransformEarly(f) == f >= 1
(* the download loop is over after the last field *)
LastField(f) == f = Len(FIELDS)

(* asyncio.run(download_url_list(...)) is over: next field, then the transform phase *)
AfterBatch ==
    /\ BatchOver
    /\ IF pc = "batch_raised"
       THEN pc' = "exit" /\ UNCHANGED <<fld, hr, lvl>>
       ELSE IF LastField(fld)
       THEN pc' = "extract" /\ fld' = 1 /\ hr' = cfg.hours[1] /\ lvl' = cfg.levels[1]
       ELSE pc' = "download" /\ fld' = fld + 1 /\ UNCHANGED <<hr, lvl>>
    /\ UNCHANGED <<exc, cfg, dirs, batchVars, grid, gribs, jsons, stack, bins, dump, fnVars>>

(* the file of the transform loop *)
Cur == <<FIELDS[fld], hr, lvl>>

SkipLevel(e) ==
    /\ lvl' = lvl + 1
    /\ pc' = IF lvl < cfg.levels[2] THEN "extract" ELSE "write_bin"
    /\ UNCHANGED <<exc, fld, hr, stack>>
(* an exception of a transform step is caught nowhere: the run ends with it *)
Fail(e) ==
    /\ pc' = "exit"
    /\ exc' = e
    /\ UNCHANGED <<fld, hr, lvl, stack>>

(* extract_grib_file: what open and bz2.decompress make of the .bz2 file *)
ExtractError(f) ==
    IF f.kind = "absent" THEN "FileNotFoundError"
    ELSE IF f.n = 0 THEN "none"
    ELSE IF f.kind = "body404" THEN "OSError"
    ELSE IF f.n < NChunks THEN "ValueError"
    ELSE "none"

ExtractGrib ==
    /\ pc = "extract"
    /\ IF ExtractError(Read(files, Cur)) = "none"
       THEN /\ gribs' = Write(gribs, Cur,
                           [kind |-> IF Read(files, Cur).n = 0 THEN "empty" ELSE "grib",
                            n |-> Read(files, Cur).n, src |-> Read(files, Cur).src])
            /\ pc' = "dump"
            /\ UNCHANGED <<exc, fld, hr, lvl, stack>>
       ELSE Fail(ExtractError(Read(files, Cur))) /\ UNCHANGED gribs
    /\ UNCHANGED <<cfg, dirs, batchVars, grid, jsons, bins, dump, fnVars>>

(* what grib_dump and the parse of its output can come to for a .grib2 file *)
DecoderOutcomes(f) ==
    {"tool_missing", "nonzero_exit", "malformed"}
      \cup (IF f.kind = "grib" THEN {"ok", "short_values", "long_values"} ELSE {})
DumpErrorAlike(o) ==
    IF o \in {"tool_missing", "nonzero_exit", "malformed"} THEN "CalledProcessError" ELSE "none"
(* the exception get_grib_data ends with: sys.exit when subprocess.run     *)
(* finds no grib_dump, the exception of subprocess.run or json.loads else  *)
DumpError(o) ==
    CASE o = "tool_missing" -> "SystemExit"
      [] o = "nonzero_exit" -> "CalledProcessError"
      [] o = "malformed" -> "JSONDecodeError"
      [] OTHER -> "none"

(* get_grib_data *)
DumpGrib ==
    /\ pc = "dump"
    /\ \E o \in DecoderOutcomes(Read(gribs, Cur)) :
         /\ dump' = o
         /\ IF DumpError(o) = "none"
            THEN /\ \E g \in (IF grid = NoGrid THEN Grids ELSE {grid}) :
                      /\ grid' = g
                      /\ jsons' = Write(jsons, Cur,
                            [kind |-> "record",
                             n |-> CASE o = "short_values" -> g.Nj * g.Ni - 1
                                     [] o = "long_values" -> g.Nj * g.Ni + 1
                                     [] OTHER -> g.Nj * g.Ni,
                             src |-> Read(gribs, Cur).src])
                 /\ pc' = "csv"
                 /\ UNCHANGED <<exc, fld, hr, lvl, stack>>
            ELSE Fail(DumpError(o)) /\ UNCHANGED <<grid, jsons>>
    /\ UNCHANGED <<cfg, dirs, batchVars, gribs, bins, fnVars>>

Untouched(record) == record
(* new_json_dict: every key of the record but "values" *)
MetaOnly(record) == [kind |-> "meta", n |-> 0, src |-> record.src]

(* json_to_csv and data_matrices.append *)
JsonToCsv ==
    /\ pc = "csv"
    /\ IF ReshapeOK(grid, Read(jsons, Cur).n) /\ FrameOK(grid)
       THEN /\ jsons' = Write(jsons, Cur, MetaOnly(jsons[Cur]))
            /\ stack' = Append(stack, [src |-> jsons[Cur].src, n |-> jsons[Cur].n,
                                       rows |-> CropRows(grid), cols |-> CropCols(grid)])
            /\ lvl' = lvl + 1
            /\ pc' = IF lvl < cfg.levels[2] THEN "extract" ELSE "write_bin"
            /\ UNCHANGED <<exc, fld, hr>>
       ELSE Fail("ValueError") /\ UNCHANGED jsons
    /\ UNCHANGED <<cfg, dirs, batchVars, grid, gribs, bins, dump, fnVars>>

KeptStack == stack
(* data_matrices = [] at the start of an hour *)
NewStack == <<>>

(* create_binary_file_over_all_flight_levels for the hour, then the next   *)
(* hour, the next field (delete_files matches no file), or the end         *)
WriteBin ==
    /\ pc = "write_bin"
    /\ bins' = Write(bins, <<FIELDS[fld], hr>>, stack)
    /\ stack' = NewStack
    /\ lvl' = cfg.levels[1]
    /\ IF hr < cfg.hours[2]
       THEN hr' = hr + 1 /\ pc' = "extract" /\ UNCHANGED fld
       ELSE IF fld < Len(FIELDS)
       THEN hr' = cfg.hours[1] /\ fld' = fld + 1 /\ pc' = "extract"
       ELSE pc' = "exit" /\ UNCHANGED <<hr, fld>>
    /\ UNCHANGED <<exc, cfg, dirs, batchVars, grid, gribs, jsons, dump, fnVars>>

(* The arguments main is started with: those it rejects, and those within  *)
(* the bounds of the model.                                                *)
HourArgs == {-1, 0, 1, MAX_HOURS, MAX_HOURS + 1}
LevelArgs == (0..MaxLevel) \cup {MAX_LEVEL, MAX_LEVEL + 1}
WithinBounds(c) ==
    /\ c.hours[1] \in {0, 1} /\ c.hours[2] \in {0, 1}
    /\ c.levels[1] \in 0..MaxLevel /\ c.levels[2] \in 0..MaxLevel
    /\ (c.hours[2] - c.hours[1] + 1) * (c.levels[2] - c.levels[1] + 1) <= MaxTargets
Configs ==
    {c \in [hours : HourArgs \X HourArgs, levels : LevelArgs \X LevelArgs] :
        Rejected(c) \/ WithinBounds(c)}

InitRun ==
    /\ pc = "main"
    /\ exc = "none"
    /\ cfg \in Configs
    /\ fld = 1
    /\ dirs = {}
    /\ urls = <<>>
    /\ net = <<>>
    /\ limit = DEFAULT_LIMIT
    /\ task = <<>>
    /\ sem = 0
    /\ waiters = <<>>
    /\ ready = <<>>
    /\ gather = [nfinished |-> 0, outer |-> "pending"]
    /\ files = NoFiles
    /\ requested = {}
    /\ ended = {}
    /\ NoRun
    /\ NoFn

(* A field of a run has at most MaxTargets urls, fewer than DEFAULT_LIMIT:  *)
(* no task of a run waits for a slot, so TaskAcquired has no part in it.    *)
NextRun ==
    \/ Main
    \/ MakeDirs
    \/ FieldDownload
    \/ BatchStart
    \/ \E i \in DOMAIN task : TaskStart(i)
    \/ \E i \in DOMAIN task : NetDeliver(i)
    \/ \E i \in DOMAIN task : TaskOpenFile(i)
    \/ \E i \in DOMAIN task : TaskChunk(i)
    \/ \E i \in DOMAIN task : TaskHTTPError(i)
    \/ \E i \in DOMAIN task : GatherCallback(i)
    \/ BatchResume
    \/ AfterBatch
    \/ ExtractGrib
    \/ DumpGrib
    \/ JsonToCsv
    \/ WriteBin

SpecRun == InitRun /\ [][NextRun]_vars

----------------------------------------------------------------------------
(* Properties of a run *)

TransformPcs == {"extract", "dump", "csv", "write_bin"}
RECURSIVE BinSamples(_)
(* samples of an artifact: a block of rows x cols samples per appended crop *)
BinSamples(blocks) ==
    IF blocks = <<>> THEN 0
    ELSE Head(blocks).rows * Head(blocks).cols + BinSamples(Tail(blocks))

(* C6: while a file of a field is being decompressed, decoded or cropped,  *)
(* or its hour is being stacked, every download target of that field has   *)
(* ended and no task of any batch is still running.                        *)
C6_DownloadBeforeTransform ==
    pc \in TransformPcs =>
      /\ \A k \in 1..(NHours * NLevels) : URLList(FIELDS[fld])[k] \in ended
      /\ \A i \in DOMAIN task : task[i].pc \in Terminal
(* the second field is being decoded, its two targets downloaded before *)
C6_Witness ==
    /\ pc = "dump"
    /\ fld = 2
    /\ NHours * NLevels = 2
    /\ \A k \in 1..2 : URLList(FIELDS[2])[k] \in ended

(* C8: in a written artifact of (field, hour) the k-th block, k from 0, is *)
(* the crop of the file of that field, that hour and level level_start + k.*)
C8_BlocksInLevelOrder ==
    \A b \in DOMAIN bins :
      \A k \in 1..Len(bins[b]) :
        bins[b][k].src = <<b[1], b[2], cfg.levels[1] + k - 1>>
(* the artifact of the second hour of a run over two hours is written *)
C8_Witness ==
    /\ cfg.hours = <<0, 1>>
    /\ <<FIELDS[1], 1>> \in DOMAIN bins
    /\ Len(bins[<<FIELDS[1], 1>>]) = 1

(* C9: a written artifact holds one block per configured level, each level *)
(* once, and rows * cols * levelCount samples and nothing else.            *)
C9_OneBlockPerLevel ==
    \A b \in DOMAIN bins :
      /\ Len(bins[b]) = NLevels
      /\ {bins[b][k].src[3] : k \in 1..Len(bins[b])} = cfg.levels[1]..cfg.levels[2]
      /\ BinSamples(bins[b]) = CropRows(grid) * CropCols(grid) * NLevels
(* an artifact of two levels is written in a run in which a transfer failed *)
C9_Witness ==
    \E b \in DOMAIN bins :
      /\ Len(bins[b]) = 2
      /\ BinSamples(bins[b]) > 0
      /\ Faults > 0

(* the crops appended to data_matrices or written to an artifact so far *)
Crops == {stack[k] : k \in 1..Len(stack)}
           \cup UNION {{bins[b][k] : k \in 1..Len(bins[b])} : b \in DOMAIN bins}
MisSized(t) == jsons[t].kind = "record" /\ jsons[t].n # grid.Nj * grid.Ni

(* C14: a record whose values are not Ni * Nj in number is the one         *)
(* json_to_csv is about to read or the one it raised ValueError on, which  *)
(* ended the run; no crop comes from it, and every crop appended to a      *)
(* stack comes from Ni * Nj values.                                        *)
C14_MisSizedFails ==
    /\ \A t \in DOMAIN jsons : MisSized(t) =>
          /\ t = Cur
          /\ pc = "csv" \/ (pc = "exit" /\ exc = "ValueError")
          /\ \A e \in Crops : e.src # t
    /\ \A e \in Crops : e.n = grid.Nj * grid.Ni
(* the second level of an hour is mis-sized: the run ended, the stack      *)
(* holds the crop of the first level only                                  *)
C14_Witness ==
    /\ pc = "exit"
    /\ exc = "ValueError"
    /\ Cur \in DOMAIN jsons
    /\ MisSized(Cur)
    /\ FrameOK(grid)
    /\ Len(stack) = 1
    /\ lvl = cfg.levels[1] + 1

(* C25: every crop json_to_csv returns, whatever Ni and Nj of its record,  *)
(* has 400 rows and 500 columns, and every written artifact holds          *)
(* 400 * 500 * levelCount samples.                                         *)
C25_CropIs400x500 ==
    /\ \A e \in Crops :
          /\ e.rows = INDEX_54P98_DEG_LAT - INDEX_47_DEG_LAT
          /\ e.cols = INDEX_14P98_DEG_LON - INDEX_5_DEG_LON
    /\ \A b \in DOMAIN bins :
          BinSamples(bins[b])
            = (INDEX_54P98_DEG_LAT - INDEX_47_DEG_LAT) * (INDEX_14P98_DEG_LON - INDEX_5_DEG_LON) * NLevels

(* the status the interpreter exits with *)
ExitStatus == IF exc = "none" THEN 0 ELSE 1
(* the (field, hour, level) units before the one of the transform loop *)
UnitsBefore ==
    {<<FIELDS[u[1]], u[2], u[3]>> :
       u \in {v \in (1..Len(FIELDS)) \X (cfg.hours[1]..cfg.hours[2])
                                      \X (cfg.levels[1]..cfg.levels[2]) :
                \/ v[1] < fld
                \/ v[1] = fld /\ v[2] < hr
                \/ v[1] = fld /\ v[2] = hr /\ v[3] < lvl}}

(* C18: the run ends with SystemExit exactly when grib_dump was not found  *)
(* (a decoder that ran and failed ends it with another exception); then    *)
(* the run is over with a non-zero status, and only the files before the   *)
(* one grib_dump was wanted for have been decoded.                         *)
C18_ToolMissingStops ==
    /\ exc = "SystemExit" <=> dump = "tool_missing"
    /\ dump \in {"nonzero_exit", "malformed"} =>
          exc \in {"CalledProcessError", "JSONDecodeError"}
    /\ dump = "tool_missing" =>
          /\ pc = "exit"
          /\ ExitStatus # 0
          /\ DOMAIN jsons = UnitsBefore
(* grib_dump is not found for the second level of a run *)
C18_Witness ==
    /\ dump = "tool_missing"
    /\ exc = "SystemExit"
    /\ lvl = cfg.levels[1] + 1
    /\ Cardinality(DOMAIN jsons) = 1

(* the (field, hour, level) units of the run *)
Units == {<<f, h, l>> : f \in FieldSet, h \in cfg.hours[1]..cfg.hours[2],
                       l \in cfg.levels[1]..cfg.levels[2]}
(* C19: a unit that fails to decompress, decode or crop does not keep the  *)
(* transform phase from the other units: when a run that had grib_dump at  *)
(* hand is over, every unit whose archive can be decompressed has been     *)
(* decompressed.                                                           *)
C19_FailureAbortsOnlyUnit ==
    (pc = "exit" /\ ~Rejected(cfg) /\ dump # "tool_missing") =>
      \A u \in Units : ExtractError(Read(files, u)) = "none" => u \in DOMAIN gribs

(* C20: a run whose hour range is inverted or reaches outside 0..48, or    *)
(* whose level range is inverted or reaches outside 1..65, is rejected by  *)
(* main with ValueError: it creates no directory and requests no file.     *)
C20_InvalidConfigRejected ==
    LET hoursOK == cfg.hours[1] <= cfg.hours[2] /\ cfg.hours[1] >= 0 /\ cfg.hours[2] <= 48
        levelsOK == cfg.levels[1] <= cfg.levels[2] /\ cfg.levels[1] >= 1 /\ cfg.levels[2] <= 65
    IN ~(hoursOK /\ levelsOK) =>
         /\ dirs = {}
         /\ requested = {}
         /\ pc = "main" \/ (pc = "exit" /\ exc = "ValueError")

(* C17: extraction leaves the stored dump of the record as it was: the     *)
(* .json file that json_to_csv read still holds the record with its values *)
(* when json_to_csv has returned.                                          *)
C17_SourceUnchanged ==
    [][(pc = "csv" /\ pc' # "exit") => jsons'[Cur] = jsons[Cur]]_vars
(* C17: the record that json_to_csv emits takes the place of the dump it   *)
(* read: the .json file of a unit whose crop was appended holds the        *)
(* record's keys without its values, and that of any other unit still      *)
(* holds the dump.                                                         *)
C17_MetaReplacesSource ==
    \A t \in DOMAIN jsons :
      IF \E e \in Crops : e.src = t
      THEN jsons[t] = [kind |-> "meta", n |-> 0, src |-> t]
      ELSE jsons[t].kind = "record" /\ jsons[t].src = t
(* the crop of a unit is on the stack and its .json file holds no values *)
C17_Witness ==
    /\ stack # <<>>
    /\ jsons[stack[1].src] = [kind |-> "meta", n |-> 0, src |-> stack[1].src]

----------------------------------------------------------------------------
(* create_binary_file_over_all_flight_levels on its own.  A matrix is the  *)
(* sequence of its rows.                                                   *)

MaxDim == 2        \* rows and columns of a matrix
Samples == {0, 1}  \* the samples of a matrix that is not numbered

NRows(m) == Len(m)
NCols(m) == IF Len(m) = 0 THEN 0 ELSE Len(m[1])

NotTransposed(m) == m
(* only_germany_height.T: the sequence of the columns *)
Transpose(m) == [c \in 1..NCols(m) |-> [r \in 1..NRows(m) |-> m[r][c]]]

RECURSIVE WriteAll(_)
(* for column in ...: for val in column: binary_stream.write(bytes(val)) *)
WriteAll(lines) ==
    IF lines = <<>> THEN <<>> ELSE Head(lines) \o WriteAll(Tail(lines))

RECURSIVE CreateBinary(_)
(* for only_germany_height in data_matrices: ... *)
CreateBinary(data_matrices) ==
    IF data_matrices = <<>> THEN <<>>
    ELSE WriteAll(Transpose(Head(data_matrices))) \o CreateBinary(Tail(data_matrices))

StackerCall ==
    /\ pc = "call"
    /\ fout' = CreateBinary(fin)
    /\ pc' = "return"
    /\ UNCHANGED <<exc, cfg, fld, dirs, batchVars, runVars, fin>>

Idle ==
    /\ exc = "none"
    /\ cfg = NoCfg
    /\ fld = 1
    /\ dirs = {}
    /\ urls = <<>>
    /\ net = <<>>
    /\ limit = DEFAULT_LIMIT
    /\ task = <<>>
    /\ sem = 0
    /\ waiters = <<>>
    /\ ready = <<>>
    /\ gather = [nfinished |-> 0, outer |-> "pending"]
    /\ files = NoFiles
    /\ requested = {}
    /\ ended = {}
    /\ NoRun

(* the matrix of r rows and c columns numbered row by row from 1 *)
Numbered(r, c) == [i \in 1..r |-> [j \in 1..c |-> (i - 1) * c + j]]
Matrices(r, c) == [1..r -> [1..c -> Samples]] \cup {Numbered(r, c)}
(* one level, or two levels of one shape *)
Stacks(r, c) ==
    UNION {{<<m>>, <<m, Numbered(r, c)>>, <<Numbered(r, c), m>>} : m \in Matrices(r, c)}

InitStack ==
    /\ pc = "call"
    /\ Idle
    /\ \E r \in 1..MaxDim, c \in 1..MaxDim : fin \in Stacks(r, c)
    /\ fout = <<>>

NextStack == StackerCall

SpecStack == InitStack /\ [][NextStack]_vars

(* C7: the sample at row r, column c (both from 0) of the k-th matrix of R *)
(* rows is sample c*R + r of the k-th block; [[1,2],[3,4]] is written as   *)
(* 1,3,2,4.                                                                *)
C7_ColumnMajor ==
    pc = "return" =>
      /\ \A k \in 1..Len(fin) :
           LET m == fin[k]
               base == (k - 1) * NRows(m) * NCols(m)
           IN \A r \in 0..(NRows(m) - 1), c \in 0..(NCols(m) - 1) :
                fout[base + c * NRows(m) + r + 1] = m[r + 1][c + 1]
      /\ fin = << <<(<<1, 2>>), (<<3, 4>>)>> >> => fout = <<1, 3, 2, 4>>
(* the matrix of the example has been written *)
C7_Witness ==
    /\ pc = "return"
    /\ fin = << <<(<<1, 2>>), (<<3, 4>>)>> >>
    /\ fout = <<1, 3, 2, 4>>

----------------------------------------------------------------------------
(* The longitude axis of json_to_csv on its own *)

AxisCall ==
    /\ pc = "call"
    /\ fout' = LonAxis(fin)
    /\ pc' = "return"
    /\ UNCHANGED <<exc, cfg, fld, dirs, batchVars, runVars, fin>>

(* First and last longitude and increment, in hundredths of a degree, of  *)
(* regular grids of more than one column: the last point is a whole       *)
(* number of increments east of the first.                                *)
Geometries ==
    {g \in [lon0 : {0, 34000, 35000, 35050, 35600, 35900},
            lon1 : {0, 50, 1000, 1050, 1500, 2000},
            step : {50, 100, 400}]
           \cup [lon0 : {500, 1000}, lon1 : {1000, 1500}, step : {50, 100, 500}] :
        /\ g.lon0 # g.lon1
        /\ ((g.lon1 - g.lon0) % FULL_CIRCLE) % g.step = 0}

InitAxis ==
    /\ pc = "call"
    /\ Idle
    /\ fin \in Geometries
    /\ fout = <<>>

NextAxis == AxisCall

SpecAxis == InitAxis /\ [][NextAxis]_vars

(* C10: when firstLon > lastLon the axis is firstLon, firstLon + step, ... *)
(* as long as that is below 360 degrees, then 0, step, ... ending with     *)
(* lastLon; for 350, 10 and step 1 it is 350..359, 0..10.                  *)
C10_WrapAxis ==
    (pc = "return" /\ fin.lon0 > fin.lon1) =>
      /\ \E n \in 1..(Len(fout) - 1) :
           /\ fout[1] = fin.lon0
           /\ \A k \in 1..(n - 1) : fout[k + 1] = fout[k] + fin.step
           /\ fout[n] < FULL_CIRCLE
           /\ fout[n] + fin.step >= FULL_CIRCLE
           /\ fout[n + 1] = 0
           /\ \A k \in (n + 1)..(Len(fout) - 1) : fout[k + 1] = fout[k] + fin.step
           /\ fout[Len(fout)] = fin.lon1
      /\ fin = [lon0 |-> 35000, lon1 |-> 1000, step |-> 100] =>
           fout = [k \in 1..21 |-> IF k <= 10 THEN 35000 + (k - 1) * 100 ELSE (k - 11) * 100]

(* C11: when firstLon <= lastLon the axis is firstLon, firstLon + step,    *)
(* ... ending with lastLon; for 5, 15 and step 1 it is 5..15, 11 entries.  *)
C11_PlainAxis ==
    (pc = "return" /\ fin.lon0 <= fin.lon1) =>
      /\ fout # <<>>
      /\ fout[1] = fin.lon0
      /\ \A k \in 1..(Len(fout) - 1) : fout[k + 1] = fout[k] + fin.step
      /\ fout[Len(fout)] = fin.lon1
      /\ fin = [lon0 |-> 500, lon1 |-> 1500, step |-> 100] =>
           fout = [k \in 1..11 |-> 500 + (k - 1) * 100]

----------------------------------------------------------------------------
(* The latitude axis of json_to_csv on its own *)

LatCall ==
    /\ pc = "call"
    /\ fout' = LatAxis(fin)
    /\ pc' = "return"
    /\ UNCHANGED <<exc, cfg, fld, dirs, batchVars, runVars, fin>>

(* First and last latitude, i-direction increment (step) and j-direction  *)
(* increment (jstep) of records whose rows are jstep apart, south to      *)
(* north, in hundredths of a degree.                                      *)
LatGeometries ==
    {g \in [lat0 : {4000, 4700, 4750}, lat1 : {5000, 5400, 5500},
            step : {50, 100, 200}, jstep : {50, 100, 200}] :
        (g.lat1 - g.lat0) % g.jstep = 0}
(* Nj of such a record *)
LatPoints(g) == (g.lat1 - g.lat0) \div g.jstep + 1

InitLat ==
    /\ pc = "call"
    /\ Idle
    /\ fin \in LatGeometries
    /\ fout = <<>>

NextLat == LatCall

SpecLat == InitLat /\ [][NextLat]_vars

(* C12: the latitude axis is firstLat, firstLat + jstep, ... ending with   *)
(* lastLat, Nj entries, also when the two increments of the record differ. *)
C12_LatAxis ==
    pc = "return" =>
      /\ Len(fout) = LatPoints(fin)
      /\ fout[1] = fin.lat0
      /\ \A k \in 1..(Len(fout) - 1) : fout[k + 1] = fout[k] + fin.jstep
      /\ fout[Len(fout)] = fin.lat1

----------------------------------------------------------------------------
(* values.reshape(Nj, Ni) of json_to_csv on its own *)

ReshapeColumnMajor(values, nj, ni) ==
    [r \in 1..nj |-> [c \in 1..ni |-> values[(c - 1) * nj + r]]]
(* numpy's reshape in its default (C) order: the last index runs fastest *)
Reshape(values, nj, ni) ==
    [r \in 1..nj |-> [c \in 1..ni |-> values[(r - 1) * ni + c]]]

ReshapeCall ==
    /\ pc = "call"
    /\ IF ReshapeOK(fin, Len(fin.values))
       THEN /\ fout' = Reshape(fin.values, fin.Nj, fin.Ni)
            /\ pc' = "return"
            /\ UNCHANGED exc
       ELSE /\ pc' = "raise"
            /\ exc' = "ValueError"
            /\ UNCHANGED fout
    /\ UNCHANGED <<cfg, fld, dirs, batchVars, runVars, fin>>

(* the values 1, 2, ..., n *)
Counted(n) == [k \in 1..n |-> k]
(* Records of up to MaxDim x MaxDim points whose values are one too few,   *)
(* as many as points, or one too many.                                     *)
Records ==
    UNION {[Ni : {ni}, Nj : {nj},
            values : UNION {[1..n -> Samples] \cup {Counted(n)} :
                              n \in (ni * nj - 1)..(ni * nj + 1)}] :
           ni \in 1..MaxDim, nj \in 1..MaxDim}

InitReshape ==
    /\ pc = "call"
    /\ Idle
    /\ fin \in Records
    /\ fout = <<>>

NextReshape == ReshapeCall

SpecReshape == InitReshape /\ [][NextReshape]_vars

(* C13: for a record of Ni * Nj values the grid has Nj rows of Ni entries, *)
(* its entry at row r, column c (both from 0) is values[r * Ni + c], and   *)
(* its rows one after the other are the values in their original order.    *)
C13_ReshapeRowMajor ==
    pc = "return" =>
      /\ Len(fout) = fin.Nj
      /\ \A r \in 0..(fin.Nj - 1) :
           /\ Len(fout[r + 1]) = fin.Ni
           /\ \A c \in 0..(fin.Ni - 1) : fout[r + 1][c + 1] = fin.values[r * fin.Ni + c + 1]
      /\ WriteAll(fout) = fin.values
(* the grid of two rows and two columns of the values 1, 2, 3, 4 *)
C13_Witness ==
    /\ pc = "return"
    /\ fin = [Ni |-> 2, Nj |-> 2, values |-> <<1, 2, 3, 4>>]
    /\ fout = << <<1, 2>>, <<3, 4>> >>

----------------------------------------------------------------------------
(* The crop of json_to_csv on its own *)

SliceOffByOne(a, start, stop) ==
    [k \in 1..SliceLen(Len(a), start, stop) |-> a[Min(Len(a), start) + k - 1]]
(* a[start:stop] for 0 <= start <= stop: the entries of index start up to, *)
(* not including, stop, counted from 0, as far as they exist               *)
Slice(a, start, stop) ==
    [k \in 1..SliceLen(Len(a), start, stop) |-> a[Min(Len(a), start) + k]]

(* data_matrix[INDEX_47_DEG_LAT:INDEX_54P98_DEG_LAT, INDEX_5_DEG_LON:INDEX_14P98_DEG_LON] *)
OnlyGermany(data_matrix) ==
    [r \in 1..SliceLen(Len(data_matrix), INDEX_47_DEG_LAT, INDEX_54P98_DEG_LAT) |->
        Slice(data_matrix[Min(Len(data_matrix), INDEX_47_DEG_LAT) + r],
              INDEX_5_DEG_LON, INDEX_14P98_DEG_LON)]

(* data_matrix of a record of Nj x Ni points with the values first + 1,    *)
(* first + 2, ...                                                          *)
DataMatrix(g) == Reshape([k \in 1..(g.Nj * g.Ni) |-> g.first + k], g.Nj, g.Ni)

CropCall ==
    /\ pc = "call"
    /\ fout' = OnlyGermany(DataMatrix(fin))
    /\ pc' = "return"
    /\ UNCHANGED <<exc, cfg, fld, dirs, batchVars, runVars, fin>>

(* Grids smaller than the window, reaching into it, as large as it needs,  *)
(* and the archive's 746 x 1215.                                           *)
DataGrids ==
    [Nj : {3}, Ni : {4}, first : {0, 1, 2}]
      \cup [Nj : {192, 193, 200, 591, 746}, Ni : {448, 449, 947, 1215}, first : {0, 1, 2}]

InitCrop ==
    /\ pc = "call"
    /\ Idle
    /\ fin \in DataGrids
    /\ fout = <<>>

NextCrop == CropCall

SpecCrop == InitCrop /\ [][NextCrop]_vars

(* C15: of a grid of at least 591 rows and 947 columns the crop has 400    *)
(* rows of 500 entries, and its entry at row r, column c (both from 0) is  *)
(* the grid's entry at row 191 + r, column 447 + c.                        *)
C15_CropWindow ==
    (pc = "return" /\ fin.Nj >= 591 /\ fin.Ni >= 947) =>
      /\ Len(fout) = 400
      /\ \A r \in 0..399 :
           /\ Len(fout[r + 1]) = 500
           /\ \A c \in 0..499 :
                fout[r + 1][c + 1] = DataMatrix(fin)[191 + r + 1][447 + c + 1]
(* the crop of the archive's grid *)
C15_Witness ==
    /\ pc = "return"
    /\ fin = [Nj |-> 746, Ni |-> 1215, first |-> 0]
    /\ Len(fout) = 400
    /\ Len(fout[400]) = 500
    /\ fout[1][1] = 191 * 1215 + 447 + 1
    /\ fout[400][500] = 590 * 1215 + 946 + 1

(* C16: the crop of a crop, taken with the same window, is that crop.      *)
C16_CropIdempotent == pc = "return" => OnlyGermany(fout) = fout

-----------------------------------------------------------------------------
(* The names of one field's batch: get_wind_data formats one URL per hour  *)
(* and level, download_single_file derives the file name from the URL.     *)

(* str(n): the decimal digits of an integer, "-" first if it is negative *)
Digit(d) == <<"0", "1", "2", "3", "4", "5", "6", "7", "8", "9">>[d + 1]
RECURSIVE Digits(_)
Digits(n) == IF n < 10 THEN <<Digit(n)>> ELSE Digits(n \div 10) \o <<Digit(n % 10)>>
Str(n) == IF n < 0 THEN <<"-">> \o Digits(0 - n) ELSE Digits(n)
(* f"{hour:02d}": at least two digits, padded with zeros on the left *)
Pad2(n) == IF 0 <= n /\ n < 10 THEN <<"0">> \o Str(n) ELSE Str(n)

(* a name that runs the hour and the level together *)
Bz2FileRunTogether(f, hour, flight_level) ==
    <<"file_begin", "_", "0">> \o Str(hour) \o Str(flight_level) \o <<"_", f, ".grib2", ".bz2">>
(* bz2_file: file_begin is the same for every target of a run *)
Bz2File(f, hour, flight_level) ==
    <<"file_begin", "_", "0">> \o Pad2(hour) \o <<"_">> \o Str(flight_level)
        \o <<"_", f, ".grib2", ".bz2">>
(* url_to_bz2_file, as its path segments *)
UrlToBz2File(t) == <<"ICOND2_URL", "latest_hour", t[1], Bz2File(t[1], t[2], t[3])>>
(* the segment after the last slash, its spaces replaced by underscores *)
Replace(s) == [k \in DOMAIN s |-> IF s[k] = " " THEN "_" ELSE s[k]]
Filename(url) == Replace(url[Len(url)])

NamesCall ==
    /\ pc = "call"
    /\ fin' = URLList(FIELDS[fld])
    /\ fout' = [k \in DOMAIN fin' |-> Filename(UrlToBz2File(fin'[k]))]
    /\ pc' = "return"
    /\ UNCHANGED <<exc, cfg, fld, dirs, batchVars, runVars>>

(* Accepted ranges with one and two digit hours and levels, a zero and a   *)
(* negative level, and the widest ranges main accepts.                     *)
NameHours == {0, 1, 10, 11, MAX_HOURS}
NameLevels == {-1, 0, 1, 2, 11, 12, MAX_LEVEL}
NameConfigs ==
    {c \in [hours : NameHours \X NameHours, levels : NameLevels \X NameLevels] : ~Rejected(c)}

InitNames ==
    /\ pc = "call"
    /\ exc = "none"
    /\ cfg \in NameConfigs
    /\ fld \in 1..Len(FIELDS)
    /\ dirs = {}
    /\ urls = <<>>
    /\ net = <<>>
    /\ limit = DEFAULT_LIMIT
    /\ task = <<>>
    /\ sem = 0
    /\ waiters = <<>>
    /\ ready = <<>>
    /\ gather = [nfinished |-> 0, outer |-> "pending"]
    /\ files = NoFiles
    /\ requested = {}
    /\ ended = {}
    /\ NoRun
    /\ NoFn

NextNames == NamesCall

SpecNames == InitNames /\ [][NextNames]_vars

(* C21: the batch of a field holds exactly one target for every hour and   *)
(* level of the two inclusive ranges, and no two of its targets have the   *)
(* same file name.                                                         *)
C21_OneNamePerPair ==
    pc = "return" =>
      /\ {fin[k] : k \in DOMAIN fin}
           = {FIELDS[fld]} \X (cfg.hours[1]..cfg.hours[2]) \X (cfg.levels[1]..cfg.levels[2])
      /\ Len(fin) = NHours * NLevels
      /\ DOMAIN fout = DOMAIN fin
      /\ Cardinality({fout[k] : k \in DOMAIN fout}) = Len(fout)
(* the hours 1..11 at the levels 2..12: hour 1 at level 12 and hour 11 at  *)
(* level 2 carry the same digits *)
C21_Witness ==
    /\ pc = "return"
    /\ cfg = [hours |-> <<1, 11>>, levels |-> <<2, 12>>]
    /\ Len(fout) = 121
    /\ fout[11] = <<"file_begin", "_", "0", "0", "1", "_", "1", "2", "_", FIELDS[fld], ".grib2", ".bz2">>
    /\ fout[111] = <<"file_begin", "_", "0", "1", "1", "_", "2", "_", FIELDS[fld], ".grib2", ".bz2">>

-----------------------------------------------------------------------------
(* The run timestamp: get_wind_data called by main, as the script does,    *)
(* and called on its own with either value of latest.                      *)

LeapYear(y) == (y % 4 = 0 /\ y % 100 # 0) \/ y % 400 = 0
DaysIn(y, mo) ==
    IF mo = 2 THEN (IF LeapYear(y) THEN 29 ELSE 28)
    ELSE IF mo \in {4, 6, 9, 11} THEN 30 ELSE 31

(* latest_hour and day after the lines 261..266 *)
LatestHour(local_hour, latest) ==
    LET rounded == local_hour - (local_hour % 3)
        lagged == IF ~latest THEN rounded - 3 ELSE rounded
    IN  IF lagged < 0 THEN 24 + lagged ELSE lagged
Day(day, local_hour, latest) ==
    LET rounded == local_hour - (local_hour % 3)
        lagged == IF ~latest THEN rounded - 3 ELSE rounded
    IN  IF lagged < 0 THEN day - 1 ELSE day
(* f"{year}{month:02d}{day:02d}{latest_hour:02d}" *)
TimeStamp(year, month, day, latest_hour) ==
    Str(year) \o Pad2(month) \o Pad2(day) \o Pad2(latest_hour)

(* what get_wind_data computes from the local time t, and the hour segment *)
(* of its URLs *)
GetWindData(t, latest) ==
    [latest |-> latest,
     day |-> Day(t.day, t.local_hour, latest),
     latest_hour |-> LatestHour(t.local_hour, latest),
     time_stamp |-> TimeStamp(t.year, t.month, Day(t.day, t.local_hour, latest),
                              LatestHour(t.local_hour, latest)),
     url_hour |-> Pad2(LatestHour(t.local_hour, latest))]

(* the script: main parses --latest into args.latest and calls            *)
(* get_wind_data without it, so the parameter keeps its default           *)
MainCall ==
    /\ pc = "call"
    /\ fout' = GetWindData(fin, FALSE)
    /\ pc' = "return_main"
    /\ UNCHANGED <<exc, cfg, fld, dirs, batchVars, runVars, fin>>

(* get_wind_data called with latest as given *)
GetWindDataCall ==
    /\ pc = "call"
    /\ fout' = GetWindData(fin, fin.latest)
    /\ pc' = "return"
    /\ UNCHANGED <<exc, cfg, fld, dirs, batchVars, runVars, fin>>

(* localtime(): a leap and a common year, the first, second, a middle and *)
(* the last day of every month, every hour; latest is the flag given.     *)
LocalTimes ==
    {t \in [year : {2023, 2024}, month : 1..12, day : 1..31, local_hour : 0..23, latest : BOOLEAN] :
        t.day \in {1, 2, 15, DaysIn(t.year, t.month)}}

InitStamp ==
    /\ pc = "call"
    /\ Idle
    /\ fin \in LocalTimes
    /\ fout = <<>>

NextStamp ==
    \/ MainCall
    \/ GetWindDataCall

SpecStamp == InitStamp /\ [][NextStamp]_vars

(* C22: started with --latest the script uses the largest multiple of 3   *)
(* not above the local hour as its run hour, in the timestamp and in the  *)
(* URLs; started without it, the run hour three hours before that.        *)
C22_FlagSelectsRunHour ==
    pc = "return_main" =>
      LET rounded == fin.local_hour - (fin.local_hour % 3)
          run_hour == IF fin.latest THEN rounded ELSE (rounded + 21) % 24
      IN  /\ fout.latest_hour = run_hour
          /\ fout.url_hour = Pad2(run_hour)
          /\ SubSeq(fout.time_stamp, Len(fout.time_stamp) - 1, Len(fout.time_stamp)) = Pad2(run_hour)

(* C24: whatever the local time and the value of latest, the timestamp of *)
(* get_wind_data names a day of its month and a run hour among 0, 3, ..., *)
(* 21, and the hour segment of the URLs is that run hour in two digits.   *)
C24_TimestampIsADate ==
    pc = "return" =>
      /\ fout.day \in 1..DaysIn(fin.year, fin.month)
      /\ fout.latest_hour \in {3 * k : k \in 0..7}
      /\ fout.time_stamp
           = Str(fin.year) \o Pad2(fin.month) \o Pad2(fout.day) \o Pad2(fout.latest_hour)
      /\ fout.url_hour = Pad2(fout.latest_hour)

====
